---- MODULE Spec2Model ----
(***************************************************************************)
(* k8s-flowtop: the view-model (internal/tui/model.go) and the cluster     *)
(* listing it polls (internal/k8s/client.go).                              *)
(*                                                                         *)
(* Seven specifications share the variables:                               *)
(*   Spec        the running program: Init's commands, the tick timer, key *)
(*               presses, fetch goroutines and the messages they return;   *)
(*   SpecUpdate  Model.Update as a handler, fed any sequence of messages;  *)
(*   SpecDerive  Model.updateFiltered as a function of its inputs;         *)
(*   SpecSort    the ByNextRun sort of updateFiltered, one comparison a    *)
(*               step, the clock read by every evaluation of a schedule;   *)
(*   SpecNormalize  jobToResource and workflowToResource on one raw object;*)
(*   SpecFetch   the fetch commands, numbered in the order they are issued;*)
(*   SpecKeys    Update fed the tab, shift+tab and s keys from a derived   *)
(*               state that is remembered.                                 *)
(* One call of Update is one step.  Time is counted in hours.              *)
(***************************************************************************)
EXTENDS Integers, Sequences, FiniteSets, Bags, TLC

VARIABLES
    resources,          \* Model.resources: the stored batch
    filteredCache,      \* Model.filteredCache: the row sequence
    treePrefixes,       \* Model.treePrefixes: one branch marker per row
    cursor,             \* Model.cursor
    viewMode,           \* Model.viewMode
    sortMode,           \* Model.sortMode
    showHelp,           \* Model.showHelp
    showDetail,         \* Model.showDetail
    selectedResource,   \* Model.selectedResource: <<>> is nil, <<r>> points to the copy r
    err,                \* Model.err: "" is nil
    lastUpdate,         \* Model.lastUpdate
    useJST,             \* Model.useJST
    cmd,                \* the tea.Cmd returned by Init or by the last Update
    cluster,            \* what the cluster API answers now: an index into Clusters
    running,            \* fetch commands started whose ListAll has not run yet
    pending,            \* bag of messages returned by fetch commands, not yet given to Update
    timers,             \* armed tea.Tick timers
    clock,              \* time.Now()
    pass,               \* SpecDerive: how often updateFiltered has run on the inputs
    data,               \* SpecSort: the parents slice that sort.Slice is sorting
    sortI,              \* SpecSort: the element the insertion sort is moving left
    sortJ,              \* SpecSort: where that element is now
    calls,              \* SpecSort: the calls of getNextRunTimeValue in this pass
    raw,                \* SpecNormalize: the object the API returned
    normalized,         \* SpecNormalize: <<>>, or <<r>> with the record made of raw
    issued,             \* SpecFetch: how many fetch commands have been started
    flight,             \* SpecFetch: the fetches started whose message Update has not had
    shown,              \* SpecFetch: the fetch whose batch is the stored batch (0: none)
    origin,             \* SpecKeys: view mode, sort mode, rows, markers before the keys
    trail               \* SpecKeys: the keys pressed since

modelVars == <<resources, filteredCache, treePrefixes, cursor, viewMode, sortMode,
               showHelp, showDetail, selectedResource, err, lastUpdate, useJST>>
runtimeVars == <<cluster, running, pending, timers>>
sortVars == <<data, sortI, sortJ, calls>>
auxVars == <<raw, normalized, issued, flight, shown, origin, trail>>
vars == <<resources, filteredCache, treePrefixes, cursor, viewMode, sortMode,
          showHelp, showDetail, selectedResource, err, lastUpdate, useJST,
          cmd, cluster, running, pending, timers, clock, pass,
          data, sortI, sortJ, calls, raw, normalized, issued, flight, shown,
          origin, trail>>

----------------------------------------------------------------------------
(* Bounds *)

MaxInFlight == 2    \* fetches started and not yet processed by Update
MaxClock == 1       \* the last instant the clock reaches
MaxBatch == 3       \* records in a batch that SpecDerive derives from
MaxCount == 2       \* the largest pod counter in the status of a Job
MaxFetches == 3     \* fetch commands SpecFetch numbers

----------------------------------------------------------------------------
(* package types *)

KindJob == "Job"
KindCronJob == "CronJob"
KindWorkflow == "Workflow"
KindCronWorkflow == "CronWorkflow"
KindSensor == "Sensor"
KindEventSource == "EventSource"

StatusRunning == "Running"
StatusSucceeded == "Succeeded"
StatusFailed == "Failed"
StatusPending == "Pending"
StatusUnknown == "Unknown"

ViewAll == 0
ViewJobs == 1
ViewWorkflows == 2
ViewEvents == 3

SortByStatus == 0
SortByNextRun == 1

\* A nil *time.Time, and the zero time.Time{} that IsZero reports.
NoTime == -1

\* AsyncResource, with the fields the view-model reads.
AsyncResource(kind, ns, name, status, start, schedule, tz, pkind, pname) ==
    [Kind |-> kind, Namespace |-> ns, Name |-> name, Status |-> status,
     StartTime |-> start, Schedule |-> schedule, Timezone |-> tz,
     ParentKind |-> pkind, ParentName |-> pname]

\* Go compares strings bytewise; these are the names in use, in that order.
NameOrder ==
    <<"", "adhoc", "backup", "build", "gone-a", "hook", "idle", "legacy", "mars",
      "nightly", "nightly-1", "nightly-2", "nightly-3", "nightly-wf", "old-a", "old-b",
      "webhook">>

StrLess(a, b) ==
    LET ia == CHOOSE i \in DOMAIN NameOrder : NameOrder[i] = a
        ib == CHOOSE i \in DOMAIN NameOrder : NameOrder[i] = b
    IN  ia < ib

----------------------------------------------------------------------------
(* Records a cluster can hold, as the normalizers of client.go emit them *)

JobNightly1 ==
    AsyncResource(KindJob, "ops", "nightly-1", StatusSucceeded, 0, "", "", "CronJob", "nightly")
JobNightly2 ==
    AsyncResource(KindJob, "ops", "nightly-2", StatusRunning, 1, "", "", "CronJob", "nightly")
\* nightly-2 as a later listing reports it, once it has succeeded.
JobNightly2Done ==
    AsyncResource(KindJob, "ops", "nightly-2", StatusSucceeded, 1, "", "", "CronJob", "nightly")
\* Started in the same second as nightly-1.
JobNightly3 ==
    AsyncResource(KindJob, "ops", "nightly-3", StatusFailed, 0, "", "", "CronJob", "nightly")
\* A Job with no owner reference.
JobAdhoc ==
    AsyncResource(KindJob, "ops", "adhoc", StatusSucceeded, 0, "", "", "", "")
JobOldA ==
    AsyncResource(KindJob, "ops", "old-a", StatusFailed, NoTime, "", "", "CronJob", "gone-a")
JobOldB ==
    AsyncResource(KindJob, "dev", "old-b", StatusPending, NoTime, "", "", "CronJob", "nightly")
CronJobNightly ==
    AsyncResource(KindCronJob, "ops", "nightly", StatusRunning, NoTime, "0 2 * * *", "", "", "")
\* The 5-field parser rejects a descriptor.
CronJobLegacy ==
    AsyncResource(KindCronJob, "ops", "legacy", StatusRunning, NoTime, "@every 5m", "", "", "")
\* A Workflow with no owner reference.
WorkflowBuild ==
    AsyncResource(KindWorkflow, "ops", "build", StatusPending, NoTime, "", "", "", "")
WorkflowNightly ==
    AsyncResource(KindWorkflow, "ops", "nightly-wf", StatusUnknown, 0, "", "",
                  "CronWorkflow", "nightly")
CronWorkflowNightly ==
    AsyncResource(KindCronWorkflow, "ops", "nightly", StatusRunning, NoTime, "0 1 * * *",
                  "", "", "")
\* 11:00 in Tokyo is 02:00 UTC, the hour of CronJob nightly.
CronWorkflowBackup ==
    AsyncResource(KindCronWorkflow, "ops", "backup", StatusRunning, NoTime, "0 11 * * *",
                  "Asia/Tokyo", "", "")
\* A timezone that time.LoadLocation does not resolve.
CronWorkflowMars ==
    AsyncResource(KindCronWorkflow, "ops", "mars", StatusRunning, NoTime, "0 1 * * *",
                  "Mars/Phobos", "", "")
\* A Sensor whose status holds no condition.
SensorIdle ==
    AsyncResource(KindSensor, "ops", "idle", StatusUnknown, NoTime, "", "", "", "")
SensorHook ==
    AsyncResource(KindSensor, "ops", "hook", StatusFailed, NoTime, "", "", "", "")
EventSourceWebhook ==
    AsyncResource(KindEventSource, "ops", "webhook", StatusRunning, NoTime, "", "", "", "")

\* In the order ListAll appends the families.
Universe ==
    <<JobAdhoc, JobNightly1, JobNightly2, JobNightly3, JobOldA, JobOldB,
      CronJobLegacy, CronJobNightly, WorkflowBuild, WorkflowNightly,
      CronWorkflowBackup, CronWorkflowMars, CronWorkflowNightly,
      SensorHook, SensorIdle, EventSourceWebhook>>

RECURSIVE Pick(_, _)
Pick(s, S) ==
    IF S = {} THEN <<>>
    ELSE LET min == CHOOSE x \in S : \A y \in S : x <= y
         IN  <<s[min]>> \o Pick(s, S \ {min})

\* Every batch of at most MaxBatch records of the universe.
DeriveBatches ==
    {Pick(Universe, S) : S \in {T \in SUBSET (DOMAIN Universe) : Cardinality(T) <= MaxBatch}}

\* The batches SpecUpdate hands to Update.
UpdateBatches ==
    { <<>>,
      <<JobNightly1, JobNightly2, CronJobNightly>>,
      <<JobNightly1, JobNightly2Done, CronJobNightly>>,
      <<JobOldA, JobOldB, SensorHook>>,
      <<CronJobNightly, CronWorkflowNightly, SensorHook, EventSourceWebhook>> }

Instants == 0..MaxClock

----------------------------------------------------------------------------
(* Schedule evaluation: getNextRunTimeValue *)

HoursPerDay == 24

\* cron.Parser.Parse of a 5-field expression "0 H * * *": the hour H, or -1 for
\* a parse error.
ParseError == -1
cronParse(schedule) ==
    CASE schedule = "0 1 * * *" -> 1
      [] schedule = "0 2 * * *" -> 2
      [] schedule = "0 9 * * *" -> 9
      [] schedule = "0 11 * * *" -> 11
      [] OTHER -> ParseError

\* time.LoadLocation: the zone's offset from UTC, or -1 when it does not resolve.
TokyoOffset == 9
LoadError == -1
LoadLocation(timezone) ==
    CASE timezone = "Asia/Tokyo" -> TokyoOffset
      [] timezone = "UTC" -> 0
      [] OTHER -> LoadError

\* cronNext returning now itself when now is an instant of the schedule.
cronNextInclusive(h, off, now) ==
    now + ((h - off - now + 2 * HoursPerDay) % HoursPerDay)

\* Schedule.Next(now) of the daily schedule at hour h, read in the zone with
\* offset off: the first instant after now whose local hour is h.
cronNext(h, off, now) ==
    now + 1 + ((h - off - now - 1 + 2 * HoursPerDay) % HoursPerDay)

\* getNextRunTimeValue giving up when the timezone does not resolve.
getNextRunTimeValueStrict(schedule, timezone, now) ==
    IF schedule = "" THEN NoTime
    ELSE IF cronParse(schedule) = ParseError THEN NoTime
    ELSE IF timezone # "" /\ LoadLocation(timezone) = LoadError THEN NoTime
    ELSE cronNext(cronParse(schedule), IF timezone # "" THEN LoadLocation(timezone) ELSE 0,
                  now)

getNextRunTimeValue(schedule, timezone, now) ==
    IF schedule = "" THEN NoTime
    ELSE IF cronParse(schedule) = ParseError THEN NoTime
    ELSE LET off == IF timezone # "" /\ LoadLocation(timezone) # LoadError
                    THEN LoadLocation(timezone)
                    ELSE 0
         IN  cronNext(cronParse(schedule), off, now)

\* The text the table shows for no next run.
Dash == <<"-">>

\* Model.jstLocation, as NewModel loads it.
jstLocation == LoadLocation("Asia/Tokyo")

\* next.Format("01/02 15:04") of an instant t of the display zone: the day,
\* counted from day 0, and the hour.
Format(t) == <<t \div HoursPerDay, t % HoursPerDay>>

\* getNextRunTime: the next run as the table shows it, in JST when jst is set
\* and the location was loaded, else in UTC.
getNextRunTime(schedule, timezone, now, jst) ==
    IF schedule = "" THEN Dash
    ELSE IF cronParse(schedule) = ParseError THEN Dash
    ELSE LET off == IF timezone # "" /\ LoadLocation(timezone) # LoadError
                    THEN LoadLocation(timezone)
                    ELSE 0
             next == cronNext(cronParse(schedule), off, now)
         IN  IF jst /\ jstLocation # LoadError THEN Format(next + jstLocation)
             ELSE Format(next)

----------------------------------------------------------------------------
(* filterResources, statusPriority *)

\* KindAllowed with the Jobs view forgetting CronJob.
KindAllowedNoCronJob(vm, kind) ==
    CASE vm = ViewJobs -> kind = KindJob
      [] vm = ViewWorkflows -> kind = KindWorkflow \/ kind = KindCronWorkflow
      [] vm = ViewEvents -> kind = KindSensor \/ kind = KindEventSource
      [] OTHER -> FALSE

KindAllowed(vm, kind) ==
    CASE vm = ViewJobs -> kind = KindJob \/ kind = KindCronJob
      [] vm = ViewWorkflows -> kind = KindWorkflow \/ kind = KindCronWorkflow
      [] vm = ViewEvents -> kind = KindSensor \/ kind = KindEventSource
      [] OTHER -> FALSE

filterResources(res, vm) ==
    IF vm = ViewAll THEN res
    ELSE SelectSeq(res, LAMBDA r : KindAllowed(vm, r.Kind))

\* statusPriority with the cases of Failed and Pending exchanged.
statusPrioritySwapped(s) ==
    CASE s = StatusRunning -> 0
      [] s = StatusPending -> 1
      [] s = StatusFailed -> 2
      [] s = StatusSucceeded -> 3
      [] OTHER -> 4

statusPriority(s) ==
    CASE s = StatusRunning -> 0
      [] s = StatusFailed -> 1
      [] s = StatusPending -> 2
      [] s = StatusSucceeded -> 3
      [] OTHER -> 4

----------------------------------------------------------------------------
(* sort.Slice and the three comparators of updateFiltered *)

\* The comparator when time.Now() gives nowI in the evaluation of a and nowJ
\* in the evaluation of b.
lessByNextRunAt(a, b, nowI, nowJ) ==
    LET nextI == getNextRunTimeValue(a.Schedule, a.Timezone, nowI)
        nextJ == getNextRunTimeValue(b.Schedule, b.Timezone, nowJ)
    IN  IF nextI = NoTime /\ nextJ = NoTime THEN StrLess(a.Name, b.Name)
        ELSE IF nextI = NoTime THEN FALSE
        ELSE IF nextJ = NoTime THEN TRUE
        ELSE nextI < nextJ

\* The comparator when the clock stands still.
lessByNextRun(a, b, now) == lessByNextRunAt(a, b, now, now)

lessByStatus(a, b) ==
    LET pi == statusPriority(a.Status)
        pj == statusPriority(b.Status)
    IN  IF pi # pj THEN pi < pj ELSE StrLess(a.Name, b.Name)

lessChild(a, b) ==
    IF a.StartTime # NoTime /\ b.StartTime # NoTime THEN a.StartTime > b.StartTime
    ELSE IF a.StartTime # NoTime THEN TRUE
    ELSE IF b.StartTime # NoTime THEN FALSE
    ELSE StrLess(b.Name, a.Name)

\* ord names the comparator: "next", "status" or "child".
Less(ord, now, a, b) ==
    CASE ord = "next" -> lessByNextRun(a, b, now)
      [] ord = "status" -> lessByStatus(a, b)
      [] OTHER -> lessChild(a, b)

\* sort.Slice on a short slice is an insertion sort: each element moves left
\* while it is less than its left neighbour.
RECURSIVE Insert(_, _, _, _)
Insert(sorted, x, ord, now) ==
    IF sorted = <<>> THEN <<x>>
    ELSE IF Less(ord, now, x, sorted[Len(sorted)])
         THEN Append(Insert(SubSeq(sorted, 1, Len(sorted) - 1), x, ord, now),
                     sorted[Len(sorted)])
         ELSE Append(sorted, x)

RECURSIVE SortSlice(_, _, _)
SortSlice(s, ord, now) ==
    IF s = <<>> THEN <<>>
    ELSE Insert(SortSlice(SubSeq(s, 1, Len(s) - 1), ord, now), s[Len(s)], ord, now)

----------------------------------------------------------------------------
(* updateFiltered *)

PrefixNone == ""
PrefixMid == "mid"      \* the mid-child marker
PrefixLast == "last"    \* the last-child marker

\* The childrenMap key namespace + "/" + parentName; a name holds no "/".
ChildKey(r) == <<r.Namespace, r.ParentName>>
ParentKey(r) == <<r.Namespace, r.Name>>

splitParents(filtered) == SelectSeq(filtered, LAMBDA r : r.ParentName = "")

\* childrenMap after the children of every key are sorted.
childrenMap(filtered, now) ==
    LET kids == {i \in DOMAIN filtered : filtered[i].ParentName # ""}
    IN  [key \in {ChildKey(filtered[i]) : i \in kids} |->
            SortSlice(SelectSeq(filtered,
                                LAMBDA r : r.ParentName # "" /\ ChildKey(r) = key),
                      "child", now)]

\* childPrefixes with the test for the last child left out.
childPrefixesAllMid(n) == [i \in 1..n |-> PrefixMid]

childPrefixes(n) == [i \in 1..n |-> IF i = n THEN PrefixLast ELSE PrefixMid]

\* The loop over the sorted parents: each parent, then the children under its
\* key, which is then deleted from the map (used holds the deleted keys).
RECURSIVE attachChildren(_, _, _)
attachChildren(parents, cm, used) ==
    IF parents = <<>> THEN [rows |-> <<>>, prefixes |-> <<>>]
    ELSE LET parent == Head(parents)
             key == ParentKey(parent)
             children == IF key \in DOMAIN cm /\ key \notin used THEN cm[key] ELSE <<>>
             rest == attachChildren(Tail(parents), cm, used \cup {key})
         IN  [rows |-> <<parent>> \o children \o rest.rows,
              prefixes |-> <<PrefixNone>> \o childPrefixes(Len(children)) \o rest.prefixes]

\* The keys left in childrenMap after the parents loop.
orphanKeys(parents, cm) ==
    DOMAIN cm \ {ParentKey(parents[i]) : i \in DOMAIN parents}

RECURSIVE Orders(_)
Orders(S) ==
    IF S = {} THEN {<<>>}
    ELSE UNION {{<<x>> \o o : o \in Orders(S \ {x})} : x \in S}

\* orphanRows with the loop over the orphans left out.
orphanRowsDropped(order, cm) == <<>>

RECURSIVE orphanRows(_, _)
orphanRows(order, cm) ==
    IF order = <<>> THEN <<>> ELSE cm[Head(order)] \o orphanRows(Tail(order), cm)

\* Every result updateFiltered can leave in filteredCache and treePrefixes: Go
\* ranges over the map of orphans in an order it picks at random.
updateFiltered(res, vm, sm, now) ==
    LET filtered == filterResources(res, vm)
        parents == SortSlice(splitParents(filtered),
                             IF sm = SortByNextRun THEN "next" ELSE "status", now)
        cm == childrenMap(filtered, now)
        tree == attachChildren(parents, cm, {})
    IN  { [rows |-> tree.rows \o orphanRows(order, cm),
           prefixes |-> tree.prefixes
                        \o [i \in 1..Len(orphanRows(order, cm)) |-> PrefixNone]]
          : order \in Orders(orphanKeys(parents, cm)) }

\* clampCursor with the adjustment left out.
clampCursorNone(c, n) == c

clampCursor(c, n) ==
    LET c1 == IF c >= n THEN n - 1 ELSE c
    IN  IF c1 < 0 THEN 0 ELSE c1

\* m.updateFiltered() on the model with batch res, view mode vm and sort mode sm.
Rederive(res, vm, sm) ==
    \E d \in updateFiltered(res, vm, sm, clock) :
        /\ filteredCache' = d.rows
        /\ treePrefixes' = d.prefixes
        /\ cursor' = clampCursor(cursor, Len(d.rows))

----------------------------------------------------------------------------
(* Client.ListAll and Model.fetchResources *)

\* The six families, in the order ListAll lists them.
FamJobs == 1
FamCronJobs == 2
FamWorkflows == 3
FamCronWorkflows == 4
FamSensors == 5
FamEventSources == 6
Families == FamJobs..FamEventSources

NoItems == [f \in Families |-> <<>>]

\* What the cluster API can answer: the items of each family, and the families
\* whose list call fails (CRD not installed, API server unreachable).
Clusters ==
    << [items |-> [NoItems EXCEPT ![FamJobs] = <<JobNightly1>>,
                                  ![FamCronJobs] = <<CronJobNightly>>,
                                  ![FamSensors] = <<SensorHook>>],
        down |-> {}],
       [items |-> [NoItems EXCEPT ![FamJobs] = <<JobNightly2>>,
                                  ![FamCronJobs] = <<CronJobNightly>>,
                                  ![FamSensors] = <<SensorHook>>],
        down |-> {FamWorkflows, FamCronWorkflows}],
       [items |-> NoItems, down |-> Families] >>

\* How many families a fetch lists before its 10 s context expires; every later
\* list call fails with the context's error.  All six: the fetch beat the timeout.
TimeoutPoints == {FamJobs, FamEventSources}

\* The answers one ListAll call gets.
Responses(c, listed) ==
    [f \in Families |->
        IF f > listed \/ f \in Clusters[c].down
        THEN [ok |-> FALSE, items |-> <<>>]
        ELSE [ok |-> TRUE, items |-> Clusters[c].items[f]]]

\* ListJobs and ListCronJobs return the list call's error.
ListJobs(resp) ==
    IF ~resp[FamJobs].ok THEN [res |-> <<>>, err |-> TRUE]
    ELSE [res |-> resp[FamJobs].items, err |-> FALSE]

ListCronJobs(resp) ==
    IF ~resp[FamCronJobs].ok THEN [res |-> <<>>, err |-> TRUE]
    ELSE [res |-> resp[FamCronJobs].items, err |-> FALSE]

\* The four Argo listers return no records and no error when the call fails.
ListWorkflows(resp) ==
    IF ~resp[FamWorkflows].ok THEN [res |-> <<>>, err |-> FALSE]
    ELSE [res |-> resp[FamWorkflows].items, err |-> FALSE]

ListCronWorkflows(resp) ==
    IF ~resp[FamCronWorkflows].ok THEN [res |-> <<>>, err |-> FALSE]
    ELSE [res |-> resp[FamCronWorkflows].items, err |-> FALSE]

ListSensors(resp) ==
    IF ~resp[FamSensors].ok THEN [res |-> <<>>, err |-> FALSE]
    ELSE [res |-> resp[FamSensors].items, err |-> FALSE]

ListEventSources(resp) ==
    IF ~resp[FamEventSources].ok THEN [res |-> <<>>, err |-> FALSE]
    ELSE [res |-> resp[FamEventSources].items, err |-> FALSE]

\* ListAll returning the error of ListJobs or ListCronJobs.
ListAllPropagating(resp) ==
    IF ListJobs(resp).err \/ ListCronJobs(resp).err
    THEN [res |-> <<>>, err |-> TRUE]
    ELSE [res |-> ListJobs(resp).res \o ListCronJobs(resp).res \o ListWorkflows(resp).res
                  \o ListCronWorkflows(resp).res \o ListSensors(resp).res
                  \o ListEventSources(resp).res,
          err |-> FALSE]

\* ListAll drops the error of every lister and returns a nil error.
ListAll(resp) ==
    [res |-> ListJobs(resp).res \o ListCronJobs(resp).res \o ListWorkflows(resp).res
             \o ListCronWorkflows(resp).res \o ListSensors(resp).res
             \o ListEventSources(resp).res,
     err |-> FALSE]

\* The message a fetch command returns.  snap and listed record what the fetch
\* saw: the cluster it listed and where its context expired.
fetchResources(c, listed) ==
    LET got == ListAll(Responses(c, listed))
    IN  IF got.err
        THEN [type |-> "errMsg", res |-> <<>>, error |-> "list failed",
              snap |-> c, listed |-> listed]
        ELSE [type |-> "resourcesMsg", res |-> got.res, error |-> "",
              snap |-> c, listed |-> listed]

----------------------------------------------------------------------------
(* Model.Update *)

KeysUp == {"up", "k"}
KeysDown == {"down", "j"}
KeysTab == {"tab"}
KeysShiftTab == {"shift+tab"}
KeysRefresh == {"r"}
KeysQuit == {"q", "ctrl+c"}
KeysHelp == {"?"}
KeysEnter == {"enter"}
KeysAll == {"1"}
KeysJobs == {"2"}
KeysFlows == {"3"}
KeysEvents == {"4"}
KeysToggleJST == {"J"}
KeysToggleSort == {"s"}

\* The bound keys, esc, and a key bound to nothing.
Keys ==
    KeysUp \cup KeysDown \cup KeysTab \cup KeysShiftTab \cup KeysRefresh \cup KeysQuit
    \cup KeysHelp \cup KeysEnter \cup KeysAll \cup KeysJobs \cup KeysFlows \cup KeysEvents
    \cup KeysToggleJST \cup KeysToggleSort \cup {"esc", "x"}

Errors == {"connection refused", "context deadline exceeded"}

NoCmd == {}

\* The detail view closed with the snapshot left behind.
KeyDetailKeepSnapshot(k) ==
    /\ IF k \in {"esc", "enter", "q"}
       THEN /\ showDetail' = FALSE
            /\ UNCHANGED selectedResource
       ELSE UNCHANGED <<showDetail, selectedResource>>
    /\ cmd' = NoCmd
    /\ UNCHANGED <<resources, filteredCache, treePrefixes, cursor, viewMode, sortMode,
                   showHelp, err, lastUpdate, useJST>>

\* The detail view letting the navigation keys through to the list.
KeyDetailNavigate(k) ==
    /\ IF k \in {"esc", "enter", "q"}
       THEN /\ showDetail' = FALSE
            /\ selectedResource' = <<>>
       ELSE UNCHANGED <<showDetail, selectedResource>>
    /\ cursor' = IF k \in {"down", "j"} /\ cursor < Len(filteredCache) - 1
                 THEN cursor + 1 ELSE cursor
    /\ cmd' = NoCmd
    /\ UNCHANGED <<resources, filteredCache, treePrefixes, viewMode, sortMode,
                   showHelp, err, lastUpdate, useJST>>

\* case tea.KeyMsg with m.showDetail set
KeyDetail(k) ==
    /\ IF k \in {"esc", "enter", "q"}
       THEN /\ showDetail' = FALSE
            /\ selectedResource' = <<>>
       ELSE UNCHANGED <<showDetail, selectedResource>>
    /\ cmd' = NoCmd
    /\ UNCHANGED <<resources, filteredCache, treePrefixes, cursor, viewMode, sortMode,
                   showHelp, err, lastUpdate, useJST>>

KeyQuit ==
    /\ cmd' = {"quit"}
    /\ UNCHANGED modelVars

KeyHelp ==
    /\ showHelp' = ~showHelp
    /\ cmd' = NoCmd
    /\ UNCHANGED <<resources, filteredCache, treePrefixes, cursor, viewMode, sortMode,
                   showDetail, selectedResource, err, lastUpdate, useJST>>

KeyRefresh ==
    /\ cmd' = {"fetch"}
    /\ UNCHANGED modelVars

KeyUp ==
    /\ cursor' = IF cursor > 0 THEN cursor - 1 ELSE cursor
    /\ cmd' = NoCmd
    /\ UNCHANGED <<resources, filteredCache, treePrefixes, viewMode, sortMode, showHelp,
                   showDetail, selectedResource, err, lastUpdate, useJST>>

KeyDown ==
    /\ cursor' = IF cursor < Len(filteredCache) - 1 THEN cursor + 1 ELSE cursor
    /\ cmd' = NoCmd
    /\ UNCHANGED <<resources, filteredCache, treePrefixes, viewMode, sortMode, showHelp,
                   showDetail, selectedResource, err, lastUpdate, useJST>>

\* The cursor counts rows from 0; sequences here start at 1.
KeyEnter ==
    /\ IF cursor >= 0 /\ cursor < Len(filteredCache)
       THEN /\ selectedResource' = <<filteredCache[cursor + 1]>>
            /\ showDetail' = TRUE
       ELSE UNCHANGED <<selectedResource, showDetail>>
    /\ cmd' = NoCmd
    /\ UNCHANGED <<resources, filteredCache, treePrefixes, cursor, viewMode, sortMode,
                   showHelp, err, lastUpdate, useJST>>

\* SetViewMode returning a fetch command as the refresh key does.
SetViewModeFetch(vm) ==
    /\ viewMode' = vm
    /\ Rederive(resources, vm, sortMode)
    /\ cmd' = {"fetch"}
    /\ UNCHANGED <<resources, sortMode, showHelp, showDetail, selectedResource, err,
                   lastUpdate, useJST>>

\* Tab, shift+tab and 1-4: set the view mode, then updateFiltered.
SetViewMode(vm) ==
    /\ viewMode' = vm
    /\ Rederive(resources, vm, sortMode)
    /\ cmd' = NoCmd
    /\ UNCHANGED <<resources, sortMode, showHelp, showDetail, selectedResource, err,
                   lastUpdate, useJST>>

KeyTab == SetViewMode((viewMode + 1) % 4)

KeyShiftTab == SetViewMode(IF viewMode = 0 THEN 3 ELSE viewMode - 1)

KeyToggleJST ==
    /\ useJST' = ~useJST
    /\ cmd' = NoCmd
    /\ UNCHANGED <<resources, filteredCache, treePrefixes, cursor, viewMode, sortMode,
                   showHelp, showDetail, selectedResource, err, lastUpdate>>

\* KeyToggleSort with the call of updateFiltered left out.
KeyToggleSortStale ==
    /\ sortMode' = IF sortMode = SortByStatus THEN SortByNextRun ELSE SortByStatus
    /\ cmd' = NoCmd
    /\ UNCHANGED <<resources, filteredCache, treePrefixes, cursor, viewMode, showHelp,
                   showDetail, selectedResource, err, lastUpdate, useJST>>

KeyToggleSort ==
    LET sm == IF sortMode = SortByStatus THEN SortByNextRun ELSE SortByStatus
    IN  /\ sortMode' = sm
        /\ Rederive(resources, viewMode, sm)
        /\ cmd' = NoCmd
        /\ UNCHANGED <<resources, viewMode, showHelp, showDetail, selectedResource, err,
                       lastUpdate, useJST>>

\* A key no case matches leaves the switch: return m, tea.Batch() of nothing.
KeyUnbound ==
    /\ cmd' = NoCmd
    /\ UNCHANGED modelVars

\* case tea.KeyMsg
UpdateKey(k) ==
    IF showDetail THEN KeyDetail(k)
    ELSE CASE k \in KeysQuit -> KeyQuit
           [] k \in KeysHelp -> KeyHelp
           [] k \in KeysRefresh -> KeyRefresh
           [] k \in KeysUp -> KeyUp
           [] k \in KeysDown -> KeyDown
           [] k \in KeysEnter -> KeyEnter
           [] k \in KeysTab -> KeyTab
           [] k \in KeysShiftTab -> KeyShiftTab
           [] k \in KeysAll -> SetViewMode(ViewAll)
           [] k \in KeysJobs -> SetViewMode(ViewJobs)
           [] k \in KeysFlows -> SetViewMode(ViewWorkflows)
           [] k \in KeysEvents -> SetViewMode(ViewEvents)
           [] k \in KeysToggleJST -> KeyToggleJST
           [] k \in KeysToggleSort -> KeyToggleSort
           [] OTHER -> KeyUnbound

\* case tea.WindowSizeMsg: only the width and height change, which are not modelled.
UpdateWindowSize ==
    /\ cmd' = NoCmd
    /\ UNCHANGED modelVars

\* The tickMsg case returning the fetch alone.
UpdateTickFetchOnly ==
    /\ cmd' = {"fetch"}
    /\ UNCHANGED modelVars

\* case tickMsg
UpdateTick ==
    /\ cmd' = {"fetch", "tick"}
    /\ UNCHANGED modelVars

\* UpdateResources with selectedResource pointing into the row slice, so that it
\* shows whatever row the cursor is on after the batch.
UpdateResourcesLive(res) ==
    /\ resources' = res
    /\ lastUpdate' = clock
    /\ Rederive(res, viewMode, sortMode)
    /\ selectedResource' = IF selectedResource = <<>> THEN <<>>
                           ELSE IF cursor' < Len(filteredCache')
                                THEN <<filteredCache'[cursor' + 1]>>
                                ELSE <<>>
    /\ cmd' = NoCmd
    /\ UNCHANGED <<viewMode, sortMode, showHelp, showDetail, err, useJST>>

\* case resourcesMsg
UpdateResources(res) ==
    /\ resources' = res
    /\ lastUpdate' = clock
    /\ Rederive(res, viewMode, sortMode)
    /\ cmd' = NoCmd
    /\ UNCHANGED <<viewMode, sortMode, showHelp, showDetail, selectedResource, err, useJST>>

\* case errMsg
UpdateErr(e) ==
    /\ err' = e
    /\ cmd' = NoCmd
    /\ UNCHANGED <<resources, filteredCache, treePrefixes, cursor, viewMode, sortMode,
                   showHelp, showDetail, selectedResource, lastUpdate, useJST>>

UpdateMsg(m) ==
    IF m.type = "errMsg" THEN UpdateErr(m.error) ELSE UpdateResources(m.res)

\* Model.View: which of its three screens it renders.
View ==
    IF err # "" THEN "error"
    ELSE IF showDetail /\ selectedResource # <<>> THEN "detail"
    ELSE "table"

\* No sort pass is under way.
SortIdle ==
    /\ data = <<>>
    /\ sortI = 2
    /\ sortJ = 2
    /\ calls = {}

\* No object is being normalized, no fetch is numbered, no key sequence is
\* being followed.
AuxIdle ==
    /\ raw = <<>>
    /\ normalized = <<>>
    /\ issued = 0
    /\ flight = {}
    /\ shown = 0
    /\ origin = <<>>
    /\ trail = <<>>

\* NewModel
NewModel ==
    /\ resources = <<>>
    /\ filteredCache = <<>>
    /\ treePrefixes = <<>>
    /\ cursor = 0
    /\ viewMode = ViewAll
    /\ sortMode = SortByStatus
    /\ showHelp = FALSE
    /\ showDetail = FALSE
    /\ selectedResource = <<>>
    /\ err = ""
    /\ lastUpdate = NoTime
    /\ useJST = FALSE

----------------------------------------------------------------------------
(* Spec: the running program *)

InFlight == running + BagCardinality(pending)

Quitting == "quit" \in cmd

\* The runtime starts the commands Update returned: a goroutine per fetch, a
\* timer per tick.
Dispatch ==
    LET fetches == IF "fetch" \in cmd' THEN 1 ELSE 0
        ticks == IF "tick" \in cmd' THEN 1 ELSE 0
    IN  /\ InFlight + fetches <= MaxInFlight
        /\ running' = running + fetches
        /\ timers' = timers + ticks

\* Model.Init returns tea.Batch(fetchResources, tickCmd); the runtime starts both.
Init ==
    /\ NewModel
    /\ cmd = {"fetch", "tick"}
    /\ cluster \in DOMAIN Clusters
    /\ running = 1
    /\ pending = EmptyBag
    /\ timers = 1
    /\ clock = 0
    /\ pass = 0
    /\ SortIdle
    /\ AuxIdle

Key(k) ==
    /\ ~Quitting
    /\ UpdateKey(k)
    /\ pending' = pending
    /\ Dispatch
    /\ UNCHANGED <<cluster, clock, pass>>
    /\ UNCHANGED <<sortVars, auxVars>>

WindowSize ==
    /\ ~Quitting
    /\ UpdateWindowSize
    /\ Dispatch
    /\ UNCHANGED <<cluster, pending, clock, pass>>
    /\ UNCHANGED <<sortVars, auxVars>>

\* An armed timer fires and Update gets its tickMsg.
Tick ==
    /\ ~Quitting
    /\ timers > 0
    /\ UpdateTick
    /\ InFlight + (IF "fetch" \in cmd' THEN 1 ELSE 0) <= MaxInFlight
    /\ running' = running + (IF "fetch" \in cmd' THEN 1 ELSE 0)
    /\ timers' = (timers - 1) + (IF "tick" \in cmd' THEN 1 ELSE 0)
    /\ UNCHANGED <<cluster, pending, clock, pass>>
    /\ UNCHANGED <<sortVars, auxVars>>

\* A fetch goroutine runs ListAll and has its message ready.
FetchRun ==
    /\ ~Quitting
    /\ running > 0
    /\ \E listed \in TimeoutPoints :
          pending' = pending (+) SetToBag({fetchResources(cluster, listed)})
    /\ running' = running - 1
    /\ UNCHANGED <<modelVars, cmd, cluster, timers, clock, pass>>
    /\ UNCHANGED <<sortVars, auxVars>>

\* Update gets the message of a fetch, in any order among those ready.
Deliver ==
    /\ ~Quitting
    /\ \E m \in BagToSet(pending) :
          /\ pending' = pending (-) SetToBag({m})
          /\ UpdateMsg(m)
    /\ Dispatch
    /\ UNCHANGED <<cluster, clock, pass>>
    /\ UNCHANGED <<sortVars, auxVars>>

ClusterChange ==
    /\ ~Quitting
    /\ \E c \in DOMAIN Clusters \ {cluster} : cluster' = c
    /\ UNCHANGED <<modelVars, cmd, running, pending, timers, clock, pass>>
    /\ UNCHANGED <<sortVars, auxVars>>

Next ==
    \/ \E k \in Keys : Key(k)
    \/ WindowSize
    \/ Tick
    \/ FetchRun
    \/ Deliver
    \/ ClusterChange

Spec == Init /\ [][Next]_vars

----------------------------------------------------------------------------
(* SpecUpdate: Update fed any message; the commands it returns are not run *)

InitUpdate ==
    /\ NewModel
    /\ cmd = {"fetch", "tick"}
    /\ cluster = 1
    /\ running = 0
    /\ pending = EmptyBag
    /\ timers = 0
    /\ clock = 0
    /\ pass = 0
    /\ SortIdle
    /\ AuxIdle

HKey(k) ==
    /\ ~Quitting
    /\ UpdateKey(k)
    /\ UNCHANGED <<runtimeVars, clock, pass>>
    /\ UNCHANGED <<sortVars, auxVars>>

HWindowSize ==
    /\ ~Quitting
    /\ UpdateWindowSize
    /\ UNCHANGED <<runtimeVars, clock, pass>>
    /\ UNCHANGED <<sortVars, auxVars>>

HTick ==
    /\ ~Quitting
    /\ UpdateTick
    /\ UNCHANGED <<runtimeVars, clock, pass>>
    /\ UNCHANGED <<sortVars, auxVars>>

HResources ==
    /\ ~Quitting
    /\ \E res \in UpdateBatches : UpdateResources(res)
    /\ UNCHANGED <<runtimeVars, clock, pass>>
    /\ UNCHANGED <<sortVars, auxVars>>

HErr ==
    /\ ~Quitting
    /\ \E e \in Errors : UpdateErr(e)
    /\ UNCHANGED <<runtimeVars, clock, pass>>
    /\ UNCHANGED <<sortVars, auxVars>>

Advance ==
    /\ ~Quitting
    /\ clock < MaxClock
    /\ clock' = clock + 1
    /\ UNCHANGED <<modelVars, cmd, runtimeVars, pass>>
    /\ UNCHANGED <<sortVars, auxVars>>

NextUpdate ==
    \/ \E k \in Keys : HKey(k)
    \/ HWindowSize
    \/ HTick
    \/ HResources
    \/ HErr
    \/ Advance

SpecUpdate == InitUpdate /\ [][NextUpdate]_vars

----------------------------------------------------------------------------
(* SpecDerive: updateFiltered run twice on the same inputs *)

InitDerive ==
    /\ resources \in DeriveBatches
    /\ viewMode \in ViewAll..ViewEvents
    /\ sortMode \in {SortByStatus, SortByNextRun}
    /\ clock \in Instants
    /\ filteredCache = <<>>
    /\ treePrefixes = <<>>
    /\ cursor = 0
    /\ showHelp = FALSE
    /\ showDetail = FALSE
    /\ selectedResource = <<>>
    /\ err = ""
    /\ lastUpdate = NoTime
    /\ useJST = FALSE
    /\ cmd = NoCmd
    /\ cluster = 1
    /\ running = 0
    /\ pending = EmptyBag
    /\ timers = 0
    /\ pass = 0
    /\ SortIdle
    /\ AuxIdle

Derive ==
    /\ pass < 2
    /\ Rederive(resources, viewMode, sortMode)
    /\ pass' = pass + 1
    /\ UNCHANGED <<resources, viewMode, sortMode, showHelp, showDetail, selectedResource,
                   err, lastUpdate, useJST, cmd, runtimeVars, clock>>
    /\ UNCHANGED <<sortVars, auxVars>>

NextDerive == Derive

SpecDerive == InitDerive /\ [][NextDerive]_vars

----------------------------------------------------------------------------
(* SpecSort: sort.Slice(parents, less) under ByNextRun, comparison by comparison *)

\* One call of getNextRunTimeValue on record r.  It reads time.Now() only after
\* the schedule has parsed; now is NoTime for a call that returned before.
Call(r, now) ==
    [rec |-> r,
     now |-> IF r.Schedule = "" \/ cronParse(r.Schedule) = ParseError THEN NoTime ELSE now,
     key |-> getNextRunTimeValue(r.Schedule, r.Timezone, now)]

InitSort ==
    /\ resources \in DeriveBatches
    /\ viewMode = ViewAll
    /\ sortMode = SortByNextRun
    /\ clock = 0
    /\ filteredCache = <<>>
    /\ treePrefixes = <<>>
    /\ cursor = 0
    /\ showHelp = FALSE
    /\ showDetail = FALSE
    /\ selectedResource = <<>>
    /\ err = ""
    /\ lastUpdate = NoTime
    /\ useJST = FALSE
    /\ cmd = NoCmd
    /\ cluster = 1
    /\ running = 0
    /\ pending = EmptyBag
    /\ timers = 0
    /\ pass = 0
    /\ data = splitParents(filterResources(resources, viewMode))
    /\ sortI = 2
    /\ sortJ = 2
    /\ calls = {}
    /\ AuxIdle

\* The insertion sort has placed every element.
SortDone == sortI > Len(data)

\* less(sortJ, sortJ - 1), then the swap and the loop steps of the insertion
\* sort: for i := 1; i < n; i++ { for j := i; j > 0 && less(j, j-1); j-- { swap } }
\* (the slice here starts at 1).  Each of the two evaluations reads the clock,
\* which never runs backwards.
Compare ==
    /\ ~SortDone
    /\ \E nowI \in clock..MaxClock :
       \E nowJ \in nowI..MaxClock :
          LET a == data[sortJ]
              b == data[sortJ - 1]
              isLess == lessByNextRunAt(a, b, nowI, nowJ)
          IN  /\ calls' = calls \cup {Call(a, nowI), Call(b, nowJ)}
              /\ clock' = nowJ
              /\ data' = IF isLess THEN [data EXCEPT ![sortJ] = b, ![sortJ - 1] = a]
                         ELSE data
              /\ IF isLess /\ sortJ - 1 > 1
                 THEN /\ sortJ' = sortJ - 1
                      /\ sortI' = sortI
                 ELSE /\ sortI' = sortI + 1
                      /\ sortJ' = sortI + 1
    /\ UNCHANGED <<modelVars, cmd, runtimeVars, pass, auxVars>>

NextSort == Compare

SpecSort == InitSort /\ [][NextSort]_vars

-----------------------------------------------------------------------------
(* jobToResource, workflowToResource *)

\* AsyncResource with the fields the two normalizers fill in.
Normalized(kind, ns, name) ==
    [Kind |-> kind, Namespace |-> ns, Name |-> name, Status |-> StatusUnknown,
     ParentKind |-> "", ParentName |-> "", StartTime |-> NoTime, EndTime |-> NoTime,
     Duration |-> 0, Retries |-> 0, SuccessCount |-> 0, FailureCount |-> 0,
     DAGNodes |-> <<>>]

\* The first owner reference of the given kind, if there is one.
ownerReference(refs, kind) ==
    LET hits == {i \in DOMAIN refs : refs[i].Kind = kind}
    IN  IF hits = {} THEN [Kind |-> "", Name |-> ""]
        ELSE refs[CHOOSE i \in hits : \A j \in hits : i <= j]

\* The status of a Job with the running pods looked at before the failed ones.
jobStatusActiveFirst(status) ==
    IF status.Succeeded > 0 THEN [Status |-> StatusSucceeded, Retries |-> 0]
    ELSE IF status.Active > 0 THEN [Status |-> StatusRunning, Retries |-> 0]
    ELSE IF status.Failed > 0 THEN [Status |-> StatusFailed, Retries |-> status.Failed]
    ELSE [Status |-> StatusPending, Retries |-> 0]

\* "Determine status" of jobToResource.
jobStatus(status) ==
    IF status.Succeeded > 0 THEN [Status |-> StatusSucceeded, Retries |-> 0]
    ELSE IF status.Failed > 0 THEN [Status |-> StatusFailed, Retries |-> status.Failed]
    ELSE IF status.Active > 0 THEN [Status |-> StatusRunning, Retries |-> 0]
    ELSE [Status |-> StatusPending, Retries |-> 0]

\* jobToResource; now is what time.Since reads.
jobToResource(job, now) ==
    LET ref == ownerReference(job.OwnerReferences, "CronJob")
        start == job.Status.StartTime
        completion == job.Status.CompletionTime
        duration ==
            IF completion # NoTime
            THEN IF start # NoTime THEN completion - start ELSE 0
            ELSE IF start # NoTime THEN now - start ELSE 0
        st == jobStatus(job.Status)
    IN  [Normalized(KindJob, job.Namespace, job.Name) EXCEPT
             !.ParentKind = ref.Kind, !.ParentName = ref.Name,
             !.StartTime = start, !.EndTime = completion, !.Duration = duration,
             !.Status = st.Status, !.Retries = st.Retries,
             !.SuccessCount = job.Status.Succeeded,
             !.FailureCount = job.Status.Failed]

\* A value of an unstructured object: a string, a value of another type, or
\* no entry under the key.
String(v) == [type |-> "string", val |-> v]
NotString == [type |-> "number", val |-> "7"]
Missing == [type |-> "missing", val |-> ""]

\* v.(string)
asString(v) == [ok |-> v.type = "string", val |-> IF v.type = "string" THEN v.val ELSE ""]

\* The timestamps in use, as the API server writes them: hour h is RFC3339[h + 1].
RFC3339 ==
    <<"2024-05-01T00:00:00Z", "2024-05-01T01:00:00Z", "2024-05-01T02:00:00Z",
      "2024-05-01T03:00:00Z">>

\* time.Parse(time.RFC3339, v)
timeParse(v) ==
    IF \E i \in DOMAIN RFC3339 : RFC3339[i] = v
    THEN [err |-> FALSE, t |-> (CHOOSE i \in DOMAIN RFC3339 : RFC3339[i] = v) - 1]
    ELSE [err |-> TRUE, t |-> NoTime]

\* The switch on the phase without the case "Error".
workflowPhaseNoError(phase) ==
    CASE phase = "Running" -> StatusRunning
      [] phase = "Succeeded" -> StatusSucceeded
      [] phase = "Failed" -> StatusFailed
      [] phase = "Pending" -> StatusPending
      [] OTHER -> StatusUnknown

\* The switch on the phase of workflowToResource; no case leaves Unknown.
workflowPhase(phase) ==
    CASE phase = "Running" -> StatusRunning
      [] phase = "Succeeded" -> StatusSucceeded
      [] phase \in {"Failed", "Error"} -> StatusFailed
      [] phase = "Pending" -> StatusPending
      [] OTHER -> StatusUnknown

\* One pass of the loop over the nodes: the entry is appended unless it is
\* not a map or its display name is empty.
dagNode(nodeData) ==
    IF nodeData.type # "map" THEN <<>>
    ELSE LET name == asString(nodeData.displayName)
             nodeType == asString(nodeData.ntype)
             phase == asString(nodeData.phase)
         IN  IF name.val # "" THEN <<[Name |-> name.val, Type |-> nodeType.val,
                                      Phase |-> phase.val]>>
             ELSE <<>>

RECURSIVE dagNodes(_, _)
dagNodes(nodes, order) ==
    IF order = <<>> THEN <<>>
    ELSE dagNode(nodes[Head(order)]) \o dagNodes(nodes, Tail(order))

\* workflowToResource; order is the order in which Go ranges over the map of
\* nodes, now is what time.Since reads.
workflowToResource(obj, now, order) ==
    LET ref == ownerReference(obj.OwnerReferences, "CronWorkflow")
        r0 == [Normalized(KindWorkflow, obj.Namespace, obj.Name) EXCEPT
                   !.ParentKind = ref.Kind, !.ParentName = ref.Name]
        status == obj.status
        phase == asString(status.phase)
        startedAt == asString(status.startedAt)
        finishedAt == asString(status.finishedAt)
        start == IF startedAt.ok /\ ~timeParse(startedAt.val).err
                 THEN timeParse(startedAt.val).t ELSE NoTime
        end == IF finishedAt.ok /\ ~timeParse(finishedAt.val).err
               THEN timeParse(finishedAt.val).t ELSE NoTime
        duration ==
            IF start # NoTime
            THEN IF end # NoTime THEN end - start ELSE now - start
            ELSE 0
    IN  IF status.type # "map" THEN r0
        ELSE [r0 EXCEPT
                  !.Status = IF phase.ok THEN workflowPhase(phase.val) ELSE StatusUnknown,
                  !.StartTime = start, !.EndTime = end, !.Duration = duration,
                  !.DAGNodes = IF status.nodes.type = "map"
                               THEN dagNodes(status.nodes.val, order) ELSE <<>>]

-----------------------------------------------------------------------------
(* SpecNormalize: one object of the API, normalized once *)

OwnerReferences ==
    {<<>>,
     <<[Kind |-> "CronJob", Name |-> "nightly"]>>,
     <<[Kind |-> "CronWorkflow", Name |-> "nightly"]>>,
     <<[Kind |-> "ReplicaSet", Name |-> "web"], [Kind |-> "CronJob", Name |-> "nightly"],
       [Kind |-> "CronJob", Name |-> "legacy"]>>}

\* Jobs with every combination of pod counters and of start and completion
\* (a metav1.Time pointer: nil or an instant).
RawJobs ==
    LET Times == {NoTime} \cup Instants
        Counts == 0..MaxCount
    IN  {[kind |-> KindJob, Namespace |-> "ops", Name |-> "nightly-1",
          OwnerReferences |-> o,
          Status |-> [StartTime |-> st, CompletionTime |-> ct,
                      Succeeded |-> s, Failed |-> f, Active |-> a]] :
            o \in OwnerReferences, st \in Times, ct \in Times,
            s \in Counts, f \in Counts, a \in Counts}

\* Workflows whose status is a map with every combination of phase, timestamps
\* and node map, or is missing, or is not a map.
RawWorkflows ==
    LET Phases ==
            {String(p) : p \in {"Running", "Succeeded", "Failed", "Error", "Pending",
                                "Skipped", ""}} \cup {NotString, Missing}
        Timestamps ==
            {String(RFC3339[i + 1]) : i \in Instants \cap 0..(Len(RFC3339) - 1)}
                \cup {String("yesterday"), NotString, Missing}
        Node(name) ==
            [type |-> "map", displayName |-> name, ntype |-> String("Pod"),
             phase |-> String("Succeeded")]
        NotNode ==
            [type |-> "string", displayName |-> Missing, ntype |-> Missing,
             phase |-> Missing]
        NodeMaps ==
            {[type |-> "missing", val |-> <<>>],
             [type |-> "string", val |-> <<>>],
             [type |-> "map", val |-> <<Node(String("build")), Node(String(""))>>],
             [type |-> "map", val |-> <<Node(String("build")), NotNode, Node(NotString),
                                        Node(String("test")), Node(Missing)>>]}
        Statuses ==
            {[type |-> "map", phase |-> p, startedAt |-> s, finishedAt |-> f,
              nodes |-> n] :
                p \in Phases, s \in Timestamps, f \in Timestamps, n \in NodeMaps}
            \cup {[type |-> t, phase |-> Missing, startedAt |-> Missing,
                   finishedAt |-> Missing,
                   nodes |-> [type |-> "missing", val |-> <<>>]] :
                      t \in {"missing", "string"}}
    IN  {[kind |-> KindWorkflow, Namespace |-> "ops", Name |-> "nightly-wf",
          OwnerReferences |-> o, status |-> st] :
            o \in OwnerReferences, st \in Statuses}

InitNormalize ==
    /\ NewModel
    /\ cmd = NoCmd
    /\ cluster = NoItems
    /\ running = 0
    /\ pending = <<>>
    /\ timers = 0
    /\ clock \in Instants
    /\ pass = 0
    /\ SortIdle
    /\ raw \in RawJobs \cup RawWorkflows
    /\ normalized = <<>>
    /\ issued = 0
    /\ flight = {}
    /\ shown = 0
    /\ origin = <<>>
    /\ trail = <<>>

NormalizeJob ==
    /\ raw.kind = KindJob
    /\ normalized = <<>>
    /\ normalized' = <<jobToResource(raw, clock)>>
    /\ UNCHANGED <<modelVars, cmd, runtimeVars, clock, pass, sortVars, raw, issued,
                   flight, shown, origin, trail>>

NormalizeWorkflow ==
    /\ raw.kind = KindWorkflow
    /\ normalized = <<>>
    /\ \E order \in Orders(DOMAIN raw.status.nodes.val) :
           normalized' = <<workflowToResource(raw, clock, order)>>
    /\ UNCHANGED <<modelVars, cmd, runtimeVars, clock, pass, sortVars, raw, issued,
                   flight, shown, origin, trail>>

NextNormalize == NormalizeJob \/ NormalizeWorkflow

SpecNormalize == InitNormalize /\ [][NextNormalize]_vars

-----------------------------------------------------------------------------
(* SpecFetch: the fetch commands, numbered in the order Update returns them *)

\* Init has returned the first fetch command.
InitFetch ==
    /\ NewModel
    /\ cmd = {"fetch", "tick"}
    /\ cluster \in DOMAIN Clusters
    /\ running = 0
    /\ pending = EmptyBag
    /\ timers = 0
    /\ clock = 0
    /\ pass = 0
    /\ SortIdle
    /\ raw = <<>>
    /\ normalized = <<>>
    /\ issued = 1
    /\ flight = {1}
    /\ shown = 0
    /\ origin = <<>>
    /\ trail = <<>>

\* A tickMsg reaches Update; the fetch command among the commands Update
\* returned is started as the next goroutine.
FetchTick ==
    /\ issued < MaxFetches
    /\ UpdateTick
    /\ issued' = IF "fetch" \in cmd' THEN issued + 1 ELSE issued
    /\ flight' = IF "fetch" \in cmd' THEN flight \cup {issued + 1} ELSE flight
    /\ UNCHANGED <<runtimeVars, clock, pass, sortVars, raw, normalized, shown, origin,
                   trail>>

\* The refresh key reaches Update.
FetchRefresh ==
    /\ issued < MaxFetches
    /\ \E k \in KeysRefresh : UpdateKey(k)
    /\ issued' = IF "fetch" \in cmd' THEN issued + 1 ELSE issued
    /\ flight' = IF "fetch" \in cmd' THEN flight \cup {issued + 1} ELSE flight
    /\ UNCHANGED <<runtimeVars, clock, pass, sortVars, raw, normalized, shown, origin,
                   trail>>

\* The goroutine of fetch id has listed the cluster as it was at some moment
\* and its message reaches Update; nothing orders the goroutines.
FetchDeliver(id) ==
    /\ id \in flight
    /\ \E c \in DOMAIN Clusters, listed \in TimeoutPoints :
           UpdateMsg(fetchResources(c, listed))
    /\ flight' = flight \ {id}
    /\ shown' = id
    /\ UNCHANGED <<runtimeVars, clock, pass, sortVars, raw, normalized, issued, origin,
                   trail>>

NextFetch ==
    \/ FetchTick
    \/ FetchRefresh
    \/ \E id \in 1..MaxFetches : FetchDeliver(id)

SpecFetch == InitFetch /\ [][NextFetch]_vars

-----------------------------------------------------------------------------
(* SpecKeys: the tab, shift+tab and s keys pressed on a derived list *)

\* A batch is stored and updateFiltered has derived the rows, in any view mode
\* and sort mode; origin remembers them.
InitKeys ==
    /\ resources \in DeriveBatches
    /\ viewMode \in ViewAll..ViewEvents
    /\ sortMode \in {SortByStatus, SortByNextRun}
    /\ clock = 0
    /\ \E d \in updateFiltered(resources, viewMode, sortMode, clock) :
           /\ filteredCache = d.rows
           /\ treePrefixes = d.prefixes
    /\ cursor = 0
    /\ showHelp = FALSE
    /\ showDetail = FALSE
    /\ selectedResource = <<>>
    /\ err = ""
    /\ lastUpdate = 0
    /\ useJST = FALSE
    /\ cmd = NoCmd
    /\ cluster = 1
    /\ running = 0
    /\ pending = EmptyBag
    /\ timers = 0
    /\ pass = 0
    /\ SortIdle
    /\ raw = <<>>
    /\ normalized = <<>>
    /\ issued = 0
    /\ flight = {}
    /\ shown = 0
    /\ origin = [viewMode |-> viewMode, sortMode |-> sortMode, rows |-> filteredCache,
                 prefixes |-> treePrefixes]
    /\ trail = <<>>

\* Update gets the next key of one of the sequences followed.
PressKey(k) ==
    /\ \E t \in {<<"s", "s">>, <<"tab", "shift+tab">>, <<"shift+tab", "tab">>,
                 <<"tab", "tab", "tab", "tab">>} :
           /\ Len(trail) < Len(t)
           /\ SubSeq(t, 1, Len(trail) + 1) = Append(trail, k)
    /\ UpdateKey(k)
    /\ trail' = Append(trail, k)
    /\ UNCHANGED <<origin, runtimeVars, clock, pass, sortVars, raw, normalized, issued,
                   flight, shown>>

NextKeys == \E k \in KeysTab \cup KeysShiftTab \cup KeysToggleSort : PressKey(k)

SpecKeys == InitKeys /\ [][NextKeys]_vars

----------------------------------------------------------------------------
(* Properties *)

Max(a, b) == IF a >= b THEN a ELSE b

Range(s) == {s[i] : i \in DOMAIN s}

\* The kinds a view mode shows, as the specification lists them.
AllowedKinds(vm) ==
    CASE vm = ViewAll -> {KindJob, KindCronJob, KindWorkflow, KindCronWorkflow,
                          KindSensor, KindEventSource}
      [] vm = ViewJobs -> {KindJob, KindCronJob}
      [] vm = ViewWorkflows -> {KindWorkflow, KindCronWorkflow}
      [] vm = ViewEvents -> {KindSensor, KindEventSource}

\* The records of the stored batch that the current view mode shows.
Shown == {r \in Range(resources) : r.Kind \in AllowedKinds(viewMode)}

\* Update takes message m of the bag in this step.
Delivered(m) == pending' = pending (-) SetToBag({m})

\* The families whose list call failed in the fetch that returned m.
FailedFamilies(m) == {f \in Families : ~Responses(m.snap, m.listed)[f].ok}

FamilyKind(f) ==
    CASE f = FamJobs -> KindJob
      [] f = FamCronJobs -> KindCronJob
      [] f = FamWorkflows -> KindWorkflow
      [] f = FamCronWorkflows -> KindCronWorkflow
      [] f = FamSensors -> KindSensor
      [] f = FamEventSources -> KindEventSource

\* C1 (as claimed): at most one fetch is in flight at any time: a tick or a
\* refresh key starts a fetch only after Update has processed the result of the
\* fetch started before it.
C1_OneFetchInFlight == InFlight <= 1

\* C2 (as claimed): when Update takes the result of a fetch whose list calls
\* all failed, the stored batch, the rows, the branch markers and the cursor
\* stay what they were, and the view shows an error.
C2_FailedFetchKeepsState ==
    [][\A m \in BagToSet(pending) :
          (Delivered(m) /\ FailedFamilies(m) = Families)
          => /\ resources' = resources
             /\ filteredCache' = filteredCache
             /\ treePrefixes' = treePrefixes
             /\ cursor' = cursor
             /\ err' # ""]_vars

\* C3 (as claimed): a fetch whose context expires after some but not all of
\* the six families are listed is reported as a failure, and Update puts none
\* of the records it had listed into the batch or the rows.
C3_TimedOutFetchFails ==
    [][\A m \in BagToSet(pending) :
          (Delivered(m) /\ m.listed >= FamJobs /\ m.listed < FamEventSources)
          => /\ m.type = "errMsg"
             /\ resources' = resources
             /\ filteredCache' = filteredCache]_vars

C5_PartialListingSucceeds ==
    /\ err = ""
    /\ \A m \in BagToSet(pending) :
          FailedFamilies(m) # {}
          => /\ m.type = "resourcesMsg"
             /\ \A f \in Families :
                   SelectSeq(m.res, LAMBDA r : r.Kind = FamilyKind(f))
                   = IF f \in FailedFamilies(m) THEN <<>> ELSE Clusters[m.snap].items[f]

\* A fetch that lost two families and listed records of two others has returned.
C5_Witness ==
    \E m \in BagToSet(pending) :
        /\ FailedFamilies(m) = {FamWorkflows, FamCronWorkflows}
        /\ m.type = "resourcesMsg"
        /\ Len(m.res) = 3

\* C6 (as claimed): updateFiltered run a second time on the same batch, view
\* mode, sort mode and instant leaves the same rows and the same branch markers.
C6_DeriveDeterministic ==
    [][(pass = 1 /\ pass' = 2)
       => (filteredCache' = filteredCache /\ treePrefixes' = treePrefixes)]_vars

\* The index of the root row that heads the group row i belongs to (0: none).
GroupHead(i) ==
    LET heads == {j \in 1..(i - 1) : treePrefixes[j] = PrefixNone}
    IN  IF heads = {} THEN 0 ELSE CHOOSE j \in heads : \A k \in heads : k <= j

\* Record r has its parent among the roots of the shown records.
Resolvable(r) ==
    /\ r.ParentName # ""
    /\ \E p \in Shown : /\ p.ParentName = ""
                        /\ p.Namespace = r.Namespace
                        /\ p.Name = r.ParentName

\* C7: after updateFiltered every shown record is in exactly one row; a record
\* whose (namespace, parentName) names a shown root is a child row of a group
\* headed by such a root, never a root row; a record whose parent is not shown
\* is one row with the empty marker; so under view mode All there are as many
\* rows as records.
C7_EveryRecordOnce ==
    pass >= 1
    => /\ Len(filteredCache) = Cardinality(Shown)
       /\ Len(treePrefixes) = Len(filteredCache)
       /\ viewMode = ViewAll => Len(filteredCache) = Len(resources)
       /\ \A r \in Shown :
             \E i \in DOMAIN filteredCache :
                /\ filteredCache[i] = r
                /\ \A j \in DOMAIN filteredCache : filteredCache[j] = r => j = i
                /\ IF Resolvable(r)
                   THEN /\ treePrefixes[i] \in {PrefixMid, PrefixLast}
                        /\ GroupHead(i) # 0
                        /\ filteredCache[GroupHead(i)].ParentName = ""
                        /\ filteredCache[GroupHead(i)].Namespace = r.Namespace
                        /\ filteredCache[GroupHead(i)].Name = r.ParentName
                   ELSE treePrefixes[i] = PrefixNone

\* A derivation that nested one child under its root and kept one orphan.
C7_Witness ==
    /\ pass >= 1
    /\ viewMode = ViewAll
    /\ \E i, j \in DOMAIN filteredCache :
          /\ treePrefixes[i] = PrefixLast
          /\ filteredCache[j].ParentName # ""
          /\ treePrefixes[j] = PrefixNone

\* C8: the view-mode filter is exact: filterResources returns, in order, the
\* records whose kind the view mode allows (all of them under All), and after
\* updateFiltered every row has an allowed kind and every record of an allowed
\* kind is a row.
C8_FilterExact ==
    /\ Range(filterResources(resources, viewMode)) = Shown
    /\ Len(filterResources(resources, viewMode)) = Cardinality(Shown)
    /\ pass >= 1
       => /\ \A i \in DOMAIN filteredCache : filteredCache[i].Kind \in AllowedKinds(viewMode)
          /\ \A r \in Shown : r \in Range(filteredCache)

\* The Jobs view shows a CronJob and hides a record of another kind.
C8_Witness ==
    /\ pass >= 1
    /\ viewMode = ViewJobs
    /\ CronJobNightly \in Range(filteredCache)
    /\ SensorHook \in Range(resources)
    /\ Len(filteredCache) < Len(resources)

\* The rows are the records of the stored batch that the current view mode
\* shows, each once, in an order updateFiltered gives for the current sort mode
\* at some instant up to now.
RowsDerived ==
    /\ Range(filteredCache) = Shown
    /\ Len(filteredCache) = Cardinality(Shown)
    /\ \E t \in 0..clock :
          \E d \in updateFiltered(resources, viewMode, sortMode, t) :
             d.rows = filteredCache /\ d.prefixes = treePrefixes

\* C9: after every Update, for any sequence of messages, the rows are the
\* records of the stored batch that the current view mode shows, each once, in
\* an order of the current sort mode; and the stored batch changes only in the
\* step in which Update takes a resourcesMsg, to the batch of that message.
C9_RowsFresh ==
    /\ []RowsDerived
    /\ [][resources' # resources => HResources]_vars

\* Under ByNextRun in the Jobs view, rows of a batch that holds other kinds too.
C9_Witness ==
    /\ sortMode = SortByNextRun
    /\ viewMode = ViewJobs
    /\ Len(filteredCache) >= 1
    /\ Len(filteredCache) < Len(resources)

\* C10: the cursor is at least 0 and at most max(0, len(rows) - 1).
C10_CursorInRange ==
    /\ cursor >= 0
    /\ cursor <= Max(0, Len(filteredCache) - 1)

\* The cursor is on the last of the rows after a view mode cut the rows down.
C10_Witness ==
    /\ cursor > 0
    /\ cursor = Len(filteredCache) - 1
    /\ Len(filteredCache) < Len(resources)

\* C11: Enter on a row opens the detail view on a copy of that row, and while
\* the detail view stays open the copy is unchanged by every batch, tick and
\* error, also when the new batch has dropped the record or changed its fields.
C11_DetailSnapshot ==
    /\ [][(~showDetail /\ showDetail') => selectedResource' = <<filteredCache[cursor + 1]>>]_vars
    /\ [][(showDetail /\ (HResources \/ HTick \/ HErr))
          => (showDetail' /\ selectedResource' = selectedResource)]_vars
    /\ [][(showDetail /\ showDetail') => selectedResource' = selectedResource]_vars

\* The detail view shows nightly-2 as Running while the stored batch reports it
\* Succeeded; or it shows a record the stored batch no longer holds.
C11_Witness ==
    /\ showDetail
    /\ selectedResource = <<JobNightly2>>
    /\ \/ JobNightly2Done \in Range(resources)
       \/ resources = <<>>

\* The keys that change the view mode or the sort mode.
ViewSortKeys ==
    KeysTab \cup KeysShiftTab \cup KeysAll \cup KeysJobs \cup KeysFlows \cup KeysEvents
    \cup KeysToggleSort

\* C12: a view-mode key (tab, shift+tab, 1-4) or the sort key (s) returns no
\* command, so no fetch is issued, and leaves the stored batch and the
\* last-update timestamp as they were; pressed in the list view, it leaves
\* rows and branch markers that updateFiltered gives for the stored batch
\* under the new view mode and sort mode.
C12_ViewSortKeysNoFetch ==
    [][\A k \in ViewSortKeys :
          HKey(k)
          => /\ cmd' = NoCmd
             /\ resources' = resources
             /\ lastUpdate' = lastUpdate
             /\ ~showDetail
                => /\ (k \in KeysToggleSort) = (sortMode' # sortMode)
                   /\ \E d \in updateFiltered(resources, viewMode', sortMode', clock) :
                         filteredCache' = d.rows /\ treePrefixes' = d.prefixes]_vars

\* The Events view under ByNextRun, reached by keys pressed an hour after the
\* batch arrived: the timestamp is still that of the batch.
C12_Witness ==
    /\ viewMode = ViewEvents
    /\ sortMode = SortByNextRun
    /\ cmd = NoCmd
    /\ clock = 1
    /\ lastUpdate = 0
    /\ Len(filteredCache) = 2
    /\ Len(resources) = 4

\* The rows that are roots: the records with no parent reference.
RootRows == {i \in DOMAIN filteredCache : filteredCache[i].ParentName = ""}

\* The status order the specification fixes, first to last.
StatusOrder ==
    <<StatusRunning, StatusFailed, StatusPending, StatusSucceeded, StatusUnknown>>

Priority(status) == (CHOOSE i \in DOMAIN StatusOrder : StatusOrder[i] = status) - 1

\* C13: under sort mode ByStatus, for any two roots a before b in the rows,
\* priority(a.status) <= priority(b.status) with Running=0 < Failed=1 <
\* Pending=2 < Succeeded=3 < Unknown=4, and a.name <= b.name when the
\* priorities are equal.
C13_ByStatusOrder ==
    (pass >= 1 /\ sortMode = SortByStatus)
    => \A i, j \in RootRows :
          i < j
          => LET a == filteredCache[i]
                 b == filteredCache[j]
             IN  /\ Priority(a.Status) <= Priority(b.Status)
                 /\ Priority(a.Status) = Priority(b.Status) => ~StrLess(b.Name, a.Name)

\* Three roots listed as Succeeded, Pending, Failed come out in reverse; or two
\* Running roots listed as nightly, backup come out by name.
C13_Witness ==
    /\ pass >= 1
    /\ sortMode = SortByStatus
    /\ \/ filteredCache = <<SensorHook, WorkflowBuild, JobAdhoc>>
       \/ filteredCache = <<CronWorkflowBackup, CronJobNightly, SensorIdle>>

\* The next-run key of row i at the instant of the derivation.
NextRunKey(i) == getNextRunTimeValue(filteredCache[i].Schedule, filteredCache[i].Timezone, clock)

\* C14 (as claimed): under sort mode ByNextRun the roots are in ascending order
\* of next-run time, every root without a next-run comes after every root that
\* has one, and two roots that tie on the key (equal next-run instants, or both
\* without a next-run) are in ascending order of name.
C14_ByNextRunOrder ==
    (pass >= 1 /\ sortMode = SortByNextRun)
    => \A i, j \in RootRows :
          i < j
          => /\ NextRunKey(i) = NoTime => NextRunKey(j) = NoTime
             /\ (NextRunKey(i) # NoTime /\ NextRunKey(j) # NoTime)
                => NextRunKey(i) <= NextRunKey(j)
             /\ NextRunKey(i) = NextRunKey(j)
                => ~StrLess(filteredCache[j].Name, filteredCache[i].Name)

\* C15 (as claimed): within one ByNextRun sort pass every comparison sees the
\* same next-run key for the same record, also when the clock advances during
\* the pass: the key of a record is computed once, from one reference instant.
C15_KeyComputedOnce ==
    \A c1, c2 \in calls : c1.rec = c2.rec => c1.key = c2.key

\* The hour a schedule "0 H * * *" names, and the offset from UTC of a zone.
ScheduleHour(schedule) ==
    CASE schedule = "0 1 * * *" -> 1
      [] schedule = "0 2 * * *" -> 2
      [] schedule = "0 11 * * *" -> 11

ZoneOffset(timezone) == IF timezone = "Asia/Tokyo" THEN 9 ELSE 0

\* Instant t is an instant of record r's schedule, read in r's timezone.
Matches(r, t) == (t + ZoneOffset(r.Timezone)) % 24 = ScheduleHour(r.Schedule)

\* The evaluations of a parseable schedule whose timezone is absent or resolves.
ScheduleCalls == {c \in calls : c.now # NoTime /\ c.rec.Timezone \in {"", "UTC", "Asia/Tokyo"}}

\* C16 (as claimed): the evaluator returns the earliest instant t >= now that
\* matches the schedule in the timezone, now itself when now matches; schedule
\* "0 9 * * *" in UTC at 08:00 gives 09:00 of the same day.
C16_NextAtOrAfterNow ==
    /\ getNextRunTimeValue("0 9 * * *", "UTC", 8) = 9
    /\ \A c \in ScheduleCalls :
          /\ c.key >= c.now
          /\ Matches(c.rec, c.key)
          /\ \A t \in c.now..(c.key - 1) : ~Matches(c.rec, t)

\* C16 (amended): the evaluator returns the earliest instant t > now that
\* matches the schedule in the timezone, the following day's instant when now
\* itself matches; schedule "0 9 * * *" in UTC at 08:00 gives 09:00 of the same
\* day.
C16_NextAfterNow ==
    /\ getNextRunTimeValue("0 9 * * *", "UTC", 8) = 9
    /\ \A c \in ScheduleCalls :
          /\ c.key > c.now
          /\ Matches(c.rec, c.key)
          /\ \A t \in (c.now + 1)..(c.key - 1) : ~Matches(c.rec, t)

\* A schedule was evaluated at one of its own instants and gave the instant a
\* day later, and a schedule was evaluated in the Tokyo zone.
C16_Witness ==
    /\ \E c \in ScheduleCalls : Matches(c.rec, c.now) /\ c.key = c.now + 24
    /\ \E c \in ScheduleCalls : c.rec.Timezone = "Asia/Tokyo" /\ c.key = 2

\* The schedule expressions in use that the 5-field parser accepts.
ParseableSchedules == {"0 1 * * *", "0 2 * * *", "0 11 * * *"}

\* C17: an empty or unparseable schedule never stops the re-derivation (every
\* shown record is a row) and gives the sentinel: NoTime for sorting, "-" for
\* display; a parseable schedule gives an instant and a formatted time; and
\* with an absent or unresolvable timezone the evaluation is the one in UTC.
C17_NoNextRunSentinel ==
    pass >= 1
    => /\ Len(filteredCache) = Cardinality(Shown)
       /\ \A i \in DOMAIN filteredCache :
             LET r == filteredCache[i]
                 value == getNextRunTimeValue(r.Schedule, r.Timezone, clock)
             IN  IF r.Schedule \notin ParseableSchedules
                 THEN /\ value = NoTime
                      /\ \A jst \in BOOLEAN :
                            getNextRunTime(r.Schedule, r.Timezone, clock, jst) = Dash
                 ELSE /\ value # NoTime
                      /\ \A jst \in BOOLEAN :
                            getNextRunTime(r.Schedule, r.Timezone, clock, jst) # Dash
                      /\ r.Timezone \notin {"UTC", "Asia/Tokyo"}
                         => /\ value = getNextRunTimeValue(r.Schedule, "UTC", clock)
                            /\ value % 24 = ScheduleHour(r.Schedule)
                            /\ \A jst \in BOOLEAN :
                                  getNextRunTime(r.Schedule, r.Timezone, clock, jst)
                                  = getNextRunTime(r.Schedule, "UTC", clock, jst)

\* A ByNextRun derivation of a batch that holds an unparseable schedule, a
\* schedule in a timezone that does not resolve, and a record with no schedule.
C17_Witness ==
    /\ pass >= 1
    /\ sortMode = SortByNextRun
    /\ filteredCache = <<CronWorkflowMars, SensorHook, CronJobLegacy>>

\* Rows i and j are children of one parent: they name the same parent in the
\* same namespace.
SameGroup(i, j) ==
    /\ filteredCache[i].ParentName # ""
    /\ filteredCache[j].ParentName # ""
    /\ filteredCache[i].Namespace = filteredCache[j].Namespace
    /\ filteredCache[i].ParentName = filteredCache[j].ParentName

\* C18 (as claimed): within one parent's group a child with a later start time
\* precedes one with an earlier start time, every child with a start time
\* precedes every child without one, and children that tie on start time
\* (equal start times, or both without) are in descending order of name.
C18_ChildrenOrder ==
    pass >= 1
    => \A i, j \in DOMAIN filteredCache :
          (i < j /\ SameGroup(i, j))
          => LET a == filteredCache[i]
                 b == filteredCache[j]
             IN  /\ a.StartTime = NoTime => b.StartTime = NoTime
                 /\ (a.StartTime # NoTime /\ b.StartTime # NoTime)
                    => a.StartTime >= b.StartTime
                 /\ a.StartTime = b.StartTime => ~StrLess(a.Name, b.Name)

\* Row i is nested under a root; row i is an orphan.
ChildRow(i) == treePrefixes[i] # PrefixNone
OrphanRow(i) == filteredCache[i].ParentName # "" /\ treePrefixes[i] = PrefixNone

\* C19: there is one branch marker per row and every shown record is a row,
\* orphans included; a root carries the empty marker; a
\* child row follows, with only child rows between, a root that its namespace
\* and parent name match, and all the rows that name one parent follow the
\* same root; the final child of a group carries the last-child marker and
\* every other child the mid-child marker; an orphan (its parent is not among
\* the shown roots) carries the empty marker and only orphans follow it.
\* CronJob nightly with Jobs nightly-1 (start 0) and nightly-2 (start 1), in a
\* view that shows them, gives nightly (empty), nightly-2 (mid), nightly-1 (last).
C19_TreeFlattening ==
    pass >= 1
    => /\ Len(treePrefixes) = Len(filteredCache)
       /\ Range(filteredCache) = Shown
       /\ \A i \in DOMAIN filteredCache :
             /\ treePrefixes[i] \in {PrefixNone, PrefixMid, PrefixLast}
             /\ filteredCache[i].ParentName = "" => treePrefixes[i] = PrefixNone
             /\ Resolvable(filteredCache[i]) => ChildRow(i)
             /\ ChildRow(i)
                => /\ GroupHead(i) # 0
                   /\ filteredCache[GroupHead(i)].ParentName = ""
                   /\ ParentKey(filteredCache[GroupHead(i)]) = ChildKey(filteredCache[i])
                   /\ (treePrefixes[i] = PrefixLast)
                      = (i = Len(filteredCache) \/ ~ChildRow(i + 1))
             /\ OrphanRow(i)
                => /\ ~Resolvable(filteredCache[i])
                   /\ \A j \in DOMAIN filteredCache : j > i => OrphanRow(j)
       /\ \A i, j \in DOMAIN filteredCache :
             (ChildRow(i) /\ ChildRow(j) /\ SameGroup(i, j)) => GroupHead(i) = GroupHead(j)
       /\ (resources = <<JobNightly1, JobNightly2, CronJobNightly>>
           /\ viewMode \in {ViewAll, ViewJobs})
          => /\ filteredCache = <<CronJobNightly, JobNightly2, JobNightly1>>
             /\ treePrefixes = <<PrefixNone, PrefixMid, PrefixLast>>

\* The example of the claim, derived under ByStatus.
C19_Witness ==
    /\ pass >= 1
    /\ sortMode = SortByStatus
    /\ viewMode = ViewAll
    /\ resources = <<JobNightly1, JobNightly2, CronJobNightly>>
    /\ treePrefixes = <<PrefixNone, PrefixMid, PrefixLast>>

C21_JobStatusPriority ==
    (normalized # <<>> /\ raw.kind = KindJob) =>
        LET r == normalized[1]
            in == raw.Status
        IN  /\ r.Kind = KindJob
            /\ in.Succeeded > 0 => r.Status = StatusSucceeded
            /\ (in.Succeeded = 0 /\ in.Failed > 0) =>
                   (r.Status = StatusFailed /\ r.Retries = in.Failed)
            /\ (in.Succeeded = 0 /\ in.Failed = 0 /\ in.Active > 0) =>
                   r.Status = StatusRunning
            /\ (in.Succeeded = 0 /\ in.Failed = 0 /\ in.Active = 0) =>
                   r.Status = StatusPending
            /\ r.Status # StatusUnknown
            /\ r.SuccessCount = in.Succeeded
            /\ r.FailureCount = in.Failed

\* A Job with failed and active pods and none succeeded has been normalized.
C21_Witness ==
    /\ normalized # <<>>
    /\ raw.kind = KindJob
    /\ raw.Status.Succeeded = 0
    /\ raw.Status.Failed = 2
    /\ raw.Status.Active = 1
    /\ normalized[1].Status = StatusFailed
    /\ normalized[1].Retries = 2

\* The start and completion instants jobToResource and workflowToResource
\* read from the object, NoTime when absent or not parseable.
RawStart ==
    IF raw.kind = KindJob THEN raw.Status.StartTime
    ELSE IF raw.status.startedAt.type = "string"
         THEN timeParse(raw.status.startedAt.val).t ELSE NoTime

RawCompletion ==
    IF raw.kind = KindJob THEN raw.Status.CompletionTime
    ELSE IF raw.status.finishedAt.type = "string"
         THEN timeParse(raw.status.finishedAt.val).t ELSE NoTime

\* C22: the duration of every record the Job and Workflow normalizers emit is
\* non-negative for all inputs: it is completion minus start when both are
\* present, the time elapsed since start when only start is present, and zero
\* when start is absent; this includes a completion earlier than the start and
\* a start later than the current time.
C22_DurationNonNegative ==
    normalized # <<>> =>
        LET d == normalized[1].Duration
        IN  /\ d >= 0
            /\ (RawStart # NoTime /\ RawCompletion # NoTime
                    /\ RawCompletion >= RawStart) => d = RawCompletion - RawStart
            /\ (RawStart # NoTime /\ RawCompletion = NoTime /\ clock >= RawStart)
                   => d = clock - RawStart
            /\ RawStart = NoTime => d = 0

\* The phase of the status of a Workflow object, as the claim reads it: a
\* string, or nothing when the status or the phase is missing or of another
\* type.
RawPhase ==
    IF raw.status.type = "map" /\ raw.status.phase.type = "string"
    THEN <<raw.status.phase.val>> ELSE <<>>

\* The display names of the entries of the node map that are maps with a
\* non-empty string as display name.
RawNodeNames ==
    IF raw.status.type = "map" /\ raw.status.nodes.type = "map"
    THEN LET ns == raw.status.nodes.val
         IN  {ns[i].displayName.val :
                  i \in {j \in DOMAIN ns : /\ ns[j].type = "map"
                                           /\ ns[j].displayName.type = "string"
                                           /\ ns[j].displayName.val # ""}}
    ELSE {}

\* C23: workflowToResource maps the phase Running to Running, Succeeded to
\* Succeeded, Failed or Error to Failed, Pending to Pending, and any other,
\* missing or non-string phase to Unknown, always returning a record; the DAG
\* nodes with an empty display name are left out of the record.
C23_WorkflowPhase ==
    (normalized # <<>> /\ raw.kind = KindWorkflow) =>
        LET r == normalized[1]
        IN  /\ r.Kind = KindWorkflow
            /\ RawPhase = <<"Running">> => r.Status = StatusRunning
            /\ RawPhase = <<"Succeeded">> => r.Status = StatusSucceeded
            /\ RawPhase \in {<<"Failed">>, <<"Error">>} => r.Status = StatusFailed
            /\ RawPhase = <<"Pending">> => r.Status = StatusPending
            /\ RawPhase \notin {<<"Running">>, <<"Succeeded">>, <<"Failed">>, <<"Error">>,
                                <<"Pending">>} => r.Status = StatusUnknown
            /\ \A i \in DOMAIN r.DAGNodes : r.DAGNodes[i].Name # ""
            /\ {r.DAGNodes[i].Name : i \in DOMAIN r.DAGNodes} = RawNodeNames
            /\ Len(r.DAGNodes) = Cardinality(RawNodeNames)

\* A Workflow in phase Error, with a node without display name among its
\* nodes, has been normalized.
C23_Witness ==
    /\ normalized # <<>>
    /\ raw.kind = KindWorkflow
    /\ RawPhase = <<"Error">>
    /\ normalized[1].Status = StatusFailed
    /\ Len(raw.status.nodes.val) = 5
    /\ Len(normalized[1].DAGNodes) = 2

\* C24: the displayed data never goes backwards: if fetch A is issued before
\* fetch B and the batch of B has been applied, the batch of A is not applied
\* afterwards, in every interleaving of the fetch goroutines.
C24_NoStaleBatch ==
    [][shown' >= shown]_vars

\* C25: from Init on exactly one tick timer is pending at any time: Init arms
\* one, Update on a tickMsg arms exactly one and issues exactly one fetch, and
\* Update on any other message arms none; this is so while the detail view,
\* the help or an error is shown. A fired timer is gone and every tick command
\* Update returns is a timer armed (Tick, Dispatch), so the count stays at one
\* exactly when the tickMsg case returns one tick and every other case none;
\* cmd holds what Update returned last.
C25_OneTimer ==
    /\ timers = 1
    /\ "tick" \in cmd => cmd = {"fetch", "tick"}

\* A tickMsg has just been handled with the detail view open.
C25_Witness ==
    /\ showDetail
    /\ cmd = {"fetch", "tick"}
    /\ timers = 1
    /\ running = 2

\* C26: a child row is only nested under a root whose kind is the parent kind
\* recorded on the child, also when another root has the namespace and name
\* of the parent but a different kind.
C26_ParentKindMatches ==
    \A i \in DOMAIN filteredCache :
        (i \in DOMAIN treePrefixes /\ ChildRow(i) /\ GroupHead(i) # 0)
            => filteredCache[GroupHead(i)].Kind = filteredCache[i].ParentKind

\* C27: the detail view is open exactly when a snapshot is held: Enter on an
\* empty list (or with the cursor on no row) opens nothing and holds nothing,
\* Enter on a row opens the view with a snapshot of that row, and esc, enter or
\* q in the detail view closes it and drops the snapshot.
C27_DetailIffSnapshot ==
    /\ [](showDetail <=> selectedResource # <<>>)
    /\ [][\A k \in Keys :
              HKey(k) =>
                  /\ (~showDetail /\ k \in KeysEnter) =>
                         IF cursor < Len(filteredCache)
                         THEN showDetail' /\ selectedResource' = <<filteredCache[cursor + 1]>>
                         ELSE ~showDetail' /\ selectedResource' = <<>>
                  /\ (showDetail /\ k \in {"esc", "enter", "q"}) =>
                         (~showDetail' /\ selectedResource' = <<>>)]_vars

\* Enter was pressed on the second row of a list.
C27_Witness ==
    /\ showDetail
    /\ cursor = 1
    /\ Len(filteredCache) > 1
    /\ selectedResource = <<filteredCache[2]>>

\* C28: while the detail view is open a key changes nothing but the detail
\* view itself, which esc, enter and q close: the cursor, the view mode, the
\* sort mode, the help flag, the JST flag and the rows stay as they are and no
\* command is returned, for every key, the quit, refresh and navigation keys
\* included.
C28_DetailKeysFrame ==
    [][\A k \in Keys :
          (showDetail /\ HKey(k)) =>
              /\ cmd' = NoCmd
              /\ UNCHANGED <<cursor, viewMode, sortMode, showHelp, useJST, filteredCache,
                             treePrefixes, resources, err, lastUpdate>>
              /\ IF k \in {"esc", "enter", "q"}
                 THEN ~showDetail' /\ selectedResource' = <<>>
                 ELSE UNCHANGED <<showDetail, selectedResource>>]_vars

\* The detail view is open on the first of several rows, with the help flag
\* set, and Update has returned no command: a key has been handled there.
C28_Witness ==
    /\ showDetail
    /\ showHelp
    /\ cursor = 0
    /\ Len(filteredCache) > 1
    /\ cmd = NoCmd

\* The rows nested under the root at row i of a list: the child rows that
\* follow it up to the next row with the empty marker.
ChildrenAt(rows, prefixes, i) ==
    LET stops == {j \in (i + 1)..Len(rows) : prefixes[j] = PrefixNone}
        last == IF stops = {} THEN Len(rows)
                ELSE (CHOOSE j \in stops : \A k \in stops : j <= k) - 1
    IN  SubSeq(rows, i + 1, last)

\* The rows with the empty marker, each with the rows nested under it.
Groups(rows, prefixes) ==
    {[root |-> rows[i], children |-> ChildrenAt(rows, prefixes, i)] :
        i \in {j \in DOMAIN rows : prefixes[j] = PrefixNone}}

\* Each row with its marker.
Markers(rows, prefixes) == {<<rows[i], prefixes[i]>> : i \in DOMAIN rows}

\* C29: toggling the sort mode only reorders the root groups: the rows are the
\* same set, the sequence of children under each root and the marker of each
\* row are the same under both sort modes; toggling twice gives the sort mode
\* back.
C29_SortToggleReordersRoots ==
    /\ trail = <<"s">> =>
           /\ sortMode # origin.sortMode
           /\ Len(filteredCache) = Len(origin.rows)
           /\ Range(filteredCache) = Range(origin.rows)
           /\ Groups(filteredCache, treePrefixes) = Groups(origin.rows, origin.prefixes)
           /\ Markers(filteredCache, treePrefixes) = Markers(origin.rows, origin.prefixes)
    /\ trail = <<"s", "s">> => sortMode = origin.sortMode

\* C30: the view modes form a cycle of four: Tab goes to the next and wraps,
\* Shift-Tab to the previous and wraps; Tab then Shift-Tab, Shift-Tab then
\* Tab, and four Tabs give back the view mode and the sequence of rows there
\* was before; the view mode is always one of the four.
C30_ViewModeCycle ==
    /\ viewMode \in {ViewAll, ViewJobs, ViewWorkflows, ViewEvents}
    /\ trail = <<"tab">> => viewMode = (origin.viewMode + 1) % 4
    /\ trail = <<"shift+tab">> => viewMode = (origin.viewMode + 3) % 4
    /\ trail \in {<<"tab", "shift+tab">>, <<"shift+tab", "tab">>,
                  <<"tab", "tab", "tab", "tab">>} =>
           /\ viewMode = origin.viewMode
           /\ filteredCache = origin.rows
           /\ treePrefixes = origin.prefixes

====
